---- MODULE Spec2Model ----
(***************************************************************************)
(* A model of fix_imports.py: the Diagnostic Parser (get_unused_imports),  *)
(* the line narrowing function (remove_import_from_line), the Import       *)
(* Editor (fix_file_imports) and the entry point (main).                   *)
(*                                                                         *)
(* Text is a sequence of symbols.  A symbol is one character, except that  *)
(* the fixed words the regular expressions and substring tests look for    *)
(* ("import", "from", "error TS", the blanket-unused phrase, a quoted      *)
(* module name) are one symbol each.  A file and the compiler's stderr are *)
(* flat texts; readlines, split and writelines convert between a text and  *)
(* its lines as the Python functions do.                                   *)
(***************************************************************************)
EXTENDS Integers, Sequences, FiniteSets, TLC

VARIABLES
    pc,              \* position of the running function
    diag,            \* the diagnostics the compiler reported (structured)
    stderr,          \* result.stderr: the diagnostics as text
    unused,          \* main: unused_imports, the Parser's records
    files_to_fix,    \* main: records grouped by file
    disk,            \* path -> text of the file
    disk0,           \* disk when the run started
    file_path,       \* fix_file_imports: argument
    unused_imports,  \* fix_file_imports: argument
    lines0,          \* fix_file_imports: the lines as read
    lines,           \* fix_file_imports: lines (edited in place)
    lines_to_fix,    \* fix_file_imports: 0-based line index -> identifiers
    todo,            \* fix_file_imports: indices the edit loop has yet to visit
    cleaned_lines,   \* fix_file_imports: the lines handed to writelines
    result,          \* fix_file_imports: returned value
    out,             \* console output
    rm_parts,        \* remove_import_from_line: how the line was put together
    rm_line,         \* remove_import_from_line: argument line
    rm_name,         \* remove_import_from_line: argument import_name
    rm_result        \* remove_import_from_line: returned value

vars == <<pc, diag, stderr, unused, files_to_fix, disk, disk0, file_path,
          unused_imports, lines0, lines, lines_to_fix, todo, cleaned_lines,
          result, out, rm_parts, rm_line, rm_name, rm_result>>

-----------------------------------------------------------------------------
(* Bounds of the model *)

\* names in a generated brace import
MaxNames == 2
\* lines in a generated source file
MaxLines == 2
\* records handed to fix_file_imports
MaxRecs == 2
\* lines of compiler output
MaxDiag == 2

-----------------------------------------------------------------------------
(* Text helpers: Python's str and list operations on symbol sequences *)

\* whitespace as \s and str.strip() see it
WS == {" ", "\n"}

Digits == {"0", "1", "2", "3", "4", "5", "6", "7", "8", "9"}

DigitVal(d) ==
    CASE d = "0" -> 0 [] d = "1" -> 1 [] d = "2" -> 2 [] d = "3" -> 3
      [] d = "4" -> 4 [] d = "5" -> 5 [] d = "6" -> 6 [] d = "7" -> 7
      [] d = "8" -> 8 [] d = "9" -> 9

\* int(s) for a string of decimal digits
RECURSIVE ToInt(_)
ToInt(s) ==
    IF s = <<>> THEN 0
    ELSE 10 * ToInt(SubSeq(s, 1, Len(s) - 1)) + DigitVal(s[Len(s)])

\* ''.join(parts)
RECURSIVE Flatten(_)
Flatten(parts) ==
    IF parts = <<>> THEN <<>> ELSE Head(parts) \o Flatten(Tail(parts))

\* sep.join(parts)
RECURSIVE Join(_, _)
Join(parts, sep) ==
    IF parts = <<>> THEN <<>>
    ELSE IF Len(parts) = 1 THEN parts[1]
    ELSE parts[1] \o sep \o Join(Tail(parts), sep)

\* index of the first c in s at or after i, 0 when there is none
RECURSIVE IndexFrom(_, _, _)
IndexFrom(s, i, c) ==
    IF i > Len(s) THEN 0
    ELSE IF s[i] = c THEN i
    ELSE IndexFrom(s, i + 1, c)

\* first index at or after i that holds no symbol of cls (Len(s)+1 at the end)
RECURSIVE SkipClass(_, _, _)
SkipClass(s, i, cls) ==
    IF i > Len(s) \/ s[i] \notin cls THEN i ELSE SkipClass(s, i + 1, cls)

\* s.split(c)
RECURSIVE Split(_, _)
Split(s, c) ==
    LET k == IndexFrom(s, 1, c)
    IN  IF k = 0 THEN <<s>>
        ELSE <<SubSeq(s, 1, k - 1)>> \o Split(SubSeq(s, k + 1, Len(s)), c)

\* s.strip()
RECURSIVE Strip(_)
Strip(s) ==
    IF s = <<>> THEN s
    ELSE IF s[1] \in WS THEN Strip(Tail(s))
    ELSE IF s[Len(s)] \in WS THEN Strip(SubSeq(s, 1, Len(s) - 1))
    ELSE s

\* sub in s
Contains(s, sub) ==
    \E i \in 1..(Len(s) - Len(sub) + 1) : SubSeq(s, i, i + Len(sub) - 1) = sub

\* f.readlines(): the text cut after every "\n"
RECURSIVE readlines(_)
readlines(text) ==
    IF text = <<>> THEN <<>>
    ELSE LET k == IndexFrom(text, 1, "\n")
         IN  IF k = 0 THEN <<text>>
             ELSE <<SubSeq(text, 1, k)>> \o readlines(SubSeq(text, k + 1, Len(text)))

\* [f(x) for x in s]
RECURSIVE StripAll(_)
StripAll(s) ==
    IF s = <<>> THEN <<>> ELSE <<Strip(Head(s))>> \o StripAll(Tail(s))

\* [i for i in imports if i != import_name]
RECURSIVE Without(_, _)
Without(imports, import_name) ==
    IF imports = <<>> THEN <<>>
    ELSE IF Head(imports) # import_name
         THEN <<Head(imports)>> \o Without(Tail(imports), import_name)
         ELSE Without(Tail(imports), import_name)

-----------------------------------------------------------------------------
(* remove_import_from_line *)

\* Python's None, as a returned line
None == <<"None">>

\* the sentinel '__ALL__'
ALL == <<"__ALL__">>

NoMatch == [start |-> 0, end |-> 0, group |-> <<>>]

\* pattern1 = import\s*\{\s*([^}]+)\s*\}\s*from matched at position i.
\* [^}]+ runs to the first "}" and needs one symbol; the \s* before it is
\* greedy and gives one symbol back when the braces hold whitespace only.
pattern1At(s, i) ==
    IF i > Len(s) \/ s[i] # "import" THEN NoMatch
    ELSE LET b == SkipClass(s, i + 1, WS)
         IN  IF b > Len(s) \/ s[b] # "{" THEN NoMatch
             ELSE LET c == IndexFrom(s, b + 1, "}")
                  IN  IF c = 0 \/ c = b + 1 THEN NoMatch
                      ELSE LET f  == SkipClass(s, c + 1, WS)
                               g0 == SkipClass(s, b + 1, WS)
                               g  == IF g0 >= c THEN c - 1 ELSE g0
                           IN  IF f > Len(s) \/ s[f] # "from" THEN NoMatch
                               ELSE [start |-> i, end |-> f,
                                     group |-> SubSeq(s, g, c - 1)]

\* re.search(pattern1, line): the leftmost match
RECURSIVE searchFrom(_, _)
searchFrom(s, i) ==
    IF i > Len(s) THEN NoMatch
    ELSE IF pattern1At(s, i).start # 0 THEN pattern1At(s, i)
    ELSE searchFrom(s, i + 1)

\* re.sub(pattern1, repl, line): every non-overlapping match is replaced
RECURSIVE subFrom(_, _, _)
subFrom(s, i, repl) ==
    IF i > Len(s) THEN <<>>
    ELSE LET m == pattern1At(s, i)
         IN  IF m.start # 0 THEN repl \o subFrom(s, m.end + 1, repl)
             ELSE <<s[i]>> \o subFrom(s, i + 1, repl)

\* f"import {{ {', '.join(imports)} }} from"
Replacement(imports) ==
    <<"import", " ", "{", " ">> \o Join(imports, <<",", " ">>)
        \o <<" ", "}", " ", "from">>

remove_import_from_line(line, import_name) ==
    LET match == searchFrom(line, 1)
    IN  IF match.start # 0
        THEN LET imports == Without(StripAll(Split(match.group, ",")), import_name)
             IN  IF imports = <<>> THEN None
                 ELSE subFrom(line, 1, Replacement(imports))
        ELSE IF Contains(line, import_name) /\ Contains(line, <<"from">>)
             THEN None
             ELSE line

-----------------------------------------------------------------------------
(* get_unused_imports: the Diagnostic Parser *)

\* the symbol at position i; "" past the end
At(s, i) == IF i \in 1..Len(s) THEN s[i] ELSE ""

PHRASE == "All imports in import declaration are unused"

Marker6133 == <<"error TS", "6", "1", "3", "3">>
Marker6192 == <<"error TS", "6", "1", "9", "2">>

\* ([^(]+)\((\d+),(\d+)\): matched at the start of the line; end is the
\* position of the ":" (0: no match)
matchPrefix(line) ==
    LET p  == IndexFrom(line, 1, "(")
        le == SkipClass(line, p + 1, Digits)
        ce == SkipClass(line, le + 1, Digits)
    IN  IF /\ p >= 2
           /\ le > p + 1  /\ At(line, le) = ","
           /\ ce > le + 1 /\ At(line, ce) = ")"
           /\ At(line, ce + 1) = ":"
        THEN [end |-> ce + 1,
              file |-> SubSeq(line, 1, p - 1),
              line_num |-> SubSeq(line, p + 1, le - 1)]
        ELSE [end |-> 0, file |-> <<>>, line_num |-> <<>>]

\* ([^(]+)\((\d+),(\d+)\): error TS6\d+: '([^']+)' matched at the start
matchNamed(line) ==
    LET pre == matchPrefix(line)
        e   == pre.end
        de  == SkipClass(line, e + 4, Digits)
        q   == IndexFrom(line, de + 3, "'")
    IN  IF /\ e # 0
           /\ At(line, e + 1) = " " /\ At(line, e + 2) = "error TS"
           /\ At(line, e + 3) = "6"
           /\ de > e + 4 /\ At(line, de) = ":" /\ At(line, de + 1) = " "
           /\ At(line, de + 2) = "'"
           /\ q > de + 3
        THEN [ok |-> TRUE, file |-> pre.file, line_num |-> pre.line_num,
              import_name |-> SubSeq(line, de + 3, q - 1)]
        ELSE [ok |-> FALSE, file |-> <<>>, line_num |-> <<>>, import_name |-> <<>>]

\* the records one line of stderr adds to unused (none or one)
ParseLine(line) ==
    IF Contains(line, Marker6133) \/ Contains(line, Marker6192)
    THEN LET match == matchNamed(line)
         IN  IF match.ok
             THEN <<[file |-> match.file, line |-> ToInt(match.line_num),
                     import |-> match.import_name]>>
             ELSE IF Contains(line, <<PHRASE>>)
                  THEN LET m2 == matchPrefix(line)
                       IN  IF m2.end # 0
                           THEN <<[file |-> m2.file, line |-> ToInt(m2.line_num),
                                   import |-> ALL]>>
                           ELSE <<>>
                  ELSE <<>>
    ELSE <<>>

RECURSIVE ParseLines(_)
ParseLines(ls) ==
    IF ls = <<>> THEN <<>> ELSE ParseLine(Head(ls)) \o ParseLines(Tail(ls))

get_unused_imports(text) == ParseLines(Split(text, "\n"))

-----------------------------------------------------------------------------
(* fix_file_imports: the Import Editor *)

\* lines[k] of a list of n lines: the 1-based position Python's index k names
PyIndex(k, n) == IF k >= 0 THEN k + 1 ELSE n + k + 1

\* whether lines[k] exists (otherwise IndexError)
InRange(k, n) == -n <= k /\ k < n

\* GroupItem with the list overwritten instead of appended to
GroupItemOverwrite(acc, item) ==
    [k \in DOMAIN acc \cup {item.line - 1} |->
        IF k = item.line - 1 THEN <<item.import>> ELSE acc[k]]

\* one turn of the grouping loop, for an item of the given file
GroupItem(acc, item) ==
    LET line_num == item.line - 1
    IN  IF line_num \in DOMAIN acc
        THEN [acc EXCEPT ![line_num] = Append(@, item.import)]
        ELSE [k \in DOMAIN acc \cup {line_num} |->
                 IF k = line_num THEN <<item.import>> ELSE acc[k]]

\* lines_to_fix after the grouping loop
RECURSIVE GroupByLine(_, _, _)
GroupByLine(items, path, acc) ==
    IF items = <<>> THEN acc
    ELSE GroupByLine(Tail(items), path,
                     IF Head(items).file = path THEN GroupItem(acc, Head(items))
                     ELSE acc)

EmptyPlan == [k \in {} |-> <<>>]

\* sorted(keys, reverse=True)
RECURSIVE SortedDesc(_)
SortedDesc(S) ==
    IF S = {} THEN <<>>
    ELSE LET m == CHOOSE x \in S : \A y \in S : y <= x
         IN  <<m>> \o SortedDesc(S \ {m})

\* HasSentinel looking at the first identifier only
HasSentinelFirst(imports_to_remove) == imports_to_remove[1] = ALL

\* '__ALL__' in imports_to_remove
HasSentinel(imports_to_remove) ==
    \E i \in DOMAIN imports_to_remove : imports_to_remove[i] = ALL

\* the for ... else over imports_to_remove: '' after a break, else the line
\* narrowed by every identifier in turn
RECURSIVE RemoveEach(_, _)
RemoveEach(original_line, imports_to_remove) ==
    IF imports_to_remove = <<>> THEN original_line
    ELSE LET new_line == remove_import_from_line(original_line,
                                                 Head(imports_to_remove))
         IN  IF new_line = None THEN <<>>
             ELSE RemoveEach(new_line, Tail(imports_to_remove))

\* what one turn of the edit loop stores in lines[line_num]
FixedLine(line, imports_to_remove) ==
    IF HasSentinel(imports_to_remove) THEN <<>>
    ELSE RemoveEach(line, imports_to_remove)

\* IsBlank without the strip
IsBlankRaw(line) == line = <<>>

\* line.strip() == ''
IsBlank(line) == Strip(line) = <<>>

\* the blank-run collapse loop
RECURSIVE Collapse(_, _)
Collapse(ls, prev_empty) ==
    IF ls = <<>> THEN <<>>
    ELSE IF IsBlank(Head(ls))
         THEN (IF prev_empty THEN <<>> ELSE <<Head(ls)>>)
                  \o Collapse(Tail(ls), TRUE)
         ELSE <<Head(ls)>> \o Collapse(Tail(ls), FALSE)

\* the exception classes the model raises; all derive from Exception
ExceptionKinds == {"OSError on read", "IndexError", "OSError on write"}

\* Catches for a handler of OSError alone
CatchesOSError(kind) == kind \in {"OSError on read", "OSError on write"}

\* except Exception
Catches(kind) == kind \in ExceptionKinds

\* the state after an exception of the given kind inside the try block
Raise(kind) ==
    IF Catches(kind)
    THEN /\ out' = Append(out, <<"Error fixing", file_path', kind>>)
         /\ result' = "False"
         /\ pc' = "returned"
    ELSE /\ out' = out
         /\ result' = result
         /\ pc' = "propagated"

\* paths of source files
PathA == <<"a">>
PathB == <<"b">>

\* the paths fix_file_imports is called with
FixPaths == {PathA}

mainVars == <<diag, stderr, unused, files_to_fix>>
rmVars == <<rm_parts, rm_line, rm_name, rm_result>>

\* open(file_path, 'r') and readlines, then the grouping loop
FixRead ==
    /\ pc = "fix"
    /\ \E p \in FixPaths :
          /\ file_path' = p
          /\ lines0' = readlines(disk[p])
          /\ lines' = readlines(disk[p])
          /\ lines_to_fix' = GroupByLine(unused_imports, p, EmptyPlan)
          /\ todo' = SortedDesc(DOMAIN GroupByLine(unused_imports, p, EmptyPlan))
    /\ pc' = "edit"
    /\ UNCHANGED <<disk, disk0, unused_imports, cleaned_lines, result, out>>
    /\ UNCHANGED <<mainVars, rmVars>>

\* the file cannot be opened or read
FixReadFail ==
    /\ pc = "fix"
    /\ \E p \in FixPaths : file_path' = p
    /\ Raise("OSError on read")
    /\ UNCHANGED <<disk, disk0, unused_imports, lines0, lines, lines_to_fix,
                   todo, cleaned_lines>>
    /\ UNCHANGED <<mainVars, rmVars>>

\* one turn of the edit loop
FixLine ==
    /\ pc = "edit"
    /\ todo # <<>>
    /\ InRange(Head(todo), Len(lines))
    /\ lines' = [lines EXCEPT ![PyIndex(Head(todo), Len(lines))] =
                    FixedLine(@, lines_to_fix[Head(todo)])]
    /\ todo' = Tail(todo)
    /\ UNCHANGED <<pc, disk, disk0, file_path, unused_imports, lines0,
                   lines_to_fix, cleaned_lines, result, out>>
    /\ UNCHANGED <<mainVars, rmVars>>

\* lines[line_num] is beyond the list
FixLineIndexError ==
    /\ pc = "edit"
    /\ todo # <<>>
    /\ ~InRange(Head(todo), Len(lines))
    /\ file_path' = file_path
    /\ Raise("IndexError")
    /\ UNCHANGED <<disk, disk0, unused_imports, lines0, lines, lines_to_fix,
                   todo, cleaned_lines>>
    /\ UNCHANGED <<mainVars, rmVars>>

\* the collapse pass, open(file_path, 'w'), writelines, return True
FixWrite ==
    /\ pc = "edit"
    /\ todo = <<>>
    /\ cleaned_lines' = Collapse(lines, FALSE)
    /\ disk' = [disk EXCEPT ![file_path] = Flatten(Collapse(lines, FALSE))]
    /\ result' = "True"
    /\ pc' = "returned"
    /\ UNCHANGED <<disk0, file_path, unused_imports, lines0, lines,
                   lines_to_fix, todo, out>>
    /\ UNCHANGED <<mainVars, rmVars>>

\* the collapse pass, then the open for writing fails (n = -1: the file is
\* untouched) or a write fails after n lines went out
FixWriteFail ==
    /\ pc = "edit"
    /\ todo = <<>>
    /\ cleaned_lines' = Collapse(lines, FALSE)
    /\ \E n \in -1..(Len(Collapse(lines, FALSE)) - 1) :
          disk' = IF n = -1 THEN disk
                  ELSE [disk EXCEPT ![file_path] =
                           Flatten(SubSeq(Collapse(lines, FALSE), 1, n))]
    /\ file_path' = file_path
    /\ Raise("OSError on write")
    /\ UNCHANGED <<disk0, unused_imports, lines0, lines, lines_to_fix, todo>>
    /\ UNCHANGED <<mainVars, rmVars>>

-----------------------------------------------------------------------------
(* fix_file_imports as one function of its inputs (no I/O failure) *)

\* lines after the edit loop has visited keys in the given order
RECURSIVE EditAll(_, _, _)
EditAll(ls, plan, keys) ==
    IF keys = <<>> THEN [ok |-> TRUE, lines |-> ls]
    ELSE IF ~InRange(Head(keys), Len(ls)) THEN [ok |-> FALSE, lines |-> ls]
    ELSE EditAll([ls EXCEPT ![PyIndex(Head(keys), Len(ls))] =
                     FixedLine(@, plan[Head(keys)])],
                 plan, Tail(keys))

\* the returned value and the text the file holds afterwards
FixOutcome(path, text, items) ==
    LET plan == GroupByLine(items, path, EmptyPlan)
        e    == EditAll(readlines(text), plan, SortedDesc(DOMAIN plan))
    IN  IF e.ok
        THEN [result |-> "True", text |-> Flatten(Collapse(e.lines, FALSE))]
        ELSE [result |-> "False", text |-> text]

-----------------------------------------------------------------------------
(* main: the entry point *)

\* files_to_fix after the grouping loop
RECURSIVE GroupByFile(_, _)
GroupByFile(items, acc) ==
    IF items = <<>> THEN acc
    ELSE LET item == Head(items)
         IN  GroupByFile(Tail(items),
                 IF item.file \in DOMAIN acc
                 THEN [acc EXCEPT ![item.file] = Append(@, item)]
                 ELSE [f \in DOMAIN acc \cup {item.file} |->
                          IF f = item.file THEN <<item>> ELSE acc[f]])

NoFiles == [f \in {} |-> <<>>]

fixVars == <<file_path, unused_imports, lines0, lines, lines_to_fix, todo,
             cleaned_lines, result>>

\* print, then get_unused_imports(): the compiler runs and its stderr is parsed
MainAnalyze ==
    /\ pc = "main"
    /\ out' = Append(out, <<"Analyzing unused imports...">>)
    /\ unused' = get_unused_imports(stderr)
    /\ pc' = "analyzed"
    /\ UNCHANGED <<diag, stderr, files_to_fix, disk, disk0>>
    /\ UNCHANGED <<fixVars, rmVars>>

\* subprocess.run raises (npx is missing): nothing in main catches it
MainToolMissing ==
    /\ pc = "main"
    /\ out' = Append(out, <<"Analyzing unused imports...">>)
    /\ pc' = "propagated"
    /\ UNCHANGED <<diag, stderr, unused, files_to_fix, disk, disk0>>
    /\ UNCHANGED <<fixVars, rmVars>>

\* if not unused_imports: print and return
MainNoUnused ==
    /\ pc = "analyzed"
    /\ unused = <<>>
    /\ out' = Append(out, <<"No unused imports found!">>)
    /\ pc' = "exit"
    /\ UNCHANGED <<diag, stderr, unused, files_to_fix, disk, disk0>>
    /\ UNCHANGED <<fixVars, rmVars>>

\* MainReport with the Editor run on every reported file
MainReportAndFix ==
    /\ pc = "analyzed"
    /\ unused # <<>>
    /\ files_to_fix' = GroupByFile(unused, NoFiles)
    /\ out' = Append(out, <<"MANUAL FIX REQUIRED">>)
    /\ disk' = [p \in DOMAIN disk |->
                   IF p \in DOMAIN GroupByFile(unused, NoFiles)
                   THEN FixOutcome(p, disk[p], unused).text ELSE disk[p]]
    /\ pc' = "exit"
    /\ UNCHANGED <<diag, stderr, unused, disk0>>
    /\ UNCHANGED <<fixVars, rmVars>>

\* the grouping by file, the summary and the closing notice
MainReport ==
    /\ pc = "analyzed"
    /\ unused # <<>>
    /\ files_to_fix' = GroupByFile(unused, NoFiles)
    /\ out' = out \o <<
           <<"Found", Len(unused), Cardinality(DOMAIN GroupByFile(unused, NoFiles))>>,
           <<"Files to fix", [f \in DOMAIN GroupByFile(unused, NoFiles) |->
                                 Len(GroupByFile(unused, NoFiles)[f])]>>,
           <<"MANUAL FIX REQUIRED">> >>
    /\ pc' = "exit"
    /\ UNCHANGED <<diag, stderr, unused, disk, disk0>>
    /\ UNCHANGED <<fixVars, rmVars>>

-----------------------------------------------------------------------------
(* The call of remove_import_from_line on its own *)

RemoveCall ==
    /\ pc = "remove"
    /\ rm_result' = remove_import_from_line(rm_line, rm_name)
    /\ pc' = "removed"
    /\ UNCHANGED <<rm_parts, rm_line, rm_name, disk, disk0, out>>
    /\ UNCHANGED <<mainVars, fixVars>>

-----------------------------------------------------------------------------
(* Inputs *)

\* sequences over S of length at most n
UpTo(S, n) == UNION {[1..k -> S] : k \in 0..n}

A == <<"A">>
B == <<"B">>
AB == <<"A", "B">>
C == <<"C">>

\* a path with a route group, as in src/app/(dash)/a
PathGroup == <<"d", "(", "g", ")", "a">>

\* import { n1, n2 } from  /  import {n1,n2} from
BraceImport(names, style) ==
    IF style = "spaced" THEN Replacement(names)
    ELSE <<"import", " ", "{">> \o Join(names, <<",">>) \o <<"}", " ", "from">>

\* what follows the from: a module and the end of the line, or a second
\* import statement before the end of the line
TailOne == <<" ", "'x'", ";", "\n">>
TailTwo == <<" ", "'x'", ";", " ">> \o BraceImport(<<C>>, "spaced")
               \o <<" ", "'y'", ";", "\n">>

BraceParts ==
    {[names |-> ns, style |-> st, tail |-> t] :
        ns \in UpTo({A, B, AB}, MaxNames) \ {<<>>},
        st \in {"spaced", "tight"},
        t \in {TailOne, TailTwo}}

Render(parts) == BraceImport(parts.names, parts.style) \o parts.tail

NoParts == [names |-> <<>>, style |-> "", tail |-> <<>>]

\* the lines source files are made of: a brace import, a default import, a
\* blank line and a statement that is no import
BraceLine == BraceImport(<<A, B>>, "spaced") \o TailOne
DefaultLine == <<"import", " ", "A", " ", "from">> \o TailOne
BlankLine == <<"\n">>
CodeLine == <<"A", "B", ";", "\n">>
LineSet == {BraceLine, DefaultLine, BlankLine, CodeLine}

\* the records fix_file_imports is called with: line 0, the lines of the
\* longest file, a line beyond its end, and one record of another file
RecordSet ==
    {[file |-> PathA, line |-> l, import |-> n] :
        l \in 0..(MaxLines + 1), n \in {A, B, ALL}}
    \cup {[file |-> PathB, line |-> 1, import |-> A]}

\* lines of compiler output
LineStrs == {<<"0">>, <<"1", "0">>}
DiagSet ==
    {[kind |-> "named", file |-> f, line |-> l, code |-> <<"6", "1", "3", "3">>,
      name |-> n] : f \in {PathA, PathB, PathGroup}, l \in LineStrs, n \in {A, B}}
    \cup {[kind |-> "all", file |-> f, line |-> l, code |-> <<"6", "1", "9", "2">>,
           name |-> <<>>] : f \in {PathA, PathB, PathGroup}, l \in LineStrs}
    \cup {[kind |-> "phrase", file |-> PathA, line |-> l, code |-> <<>>,
           name |-> <<>>] : l \in LineStrs}
    \cup {[kind |-> "named", file |-> PathA, line |-> <<"1", "0">>,
           code |-> <<"2", "3", "0", "4">>, name |-> A],
          [kind |-> "nofile", file |-> <<>>, line |-> <<>>,
           code |-> <<"6", "1", "3", "3">>, name |-> A]}

\* the text of one diagnostic, as tsc prints it
Location(d) == d.file \o <<"(">> \o d.line \o <<",", "3", ")", ":">>
Declared(d) == <<"'">> \o d.name \o <<"'", " is declared but its value is never read.">>
Format(d) ==
    CASE d.kind = "named" ->
            Location(d) \o <<" ", "error TS">> \o d.code \o <<":", " ">> \o Declared(d)
      [] d.kind = "all" ->
            Location(d) \o <<" ", "error TS">> \o d.code \o <<":", " ", PHRASE, ".">>
      [] d.kind = "phrase" ->
            Location(d) \o <<" ", PHRASE, ".">>
      [] d.kind = "nofile" ->
            <<"error TS">> \o d.code \o <<":", " ">> \o Declared(d)

RECURSIVE FormatAll(_)
FormatAll(ds) ==
    IF ds = <<>> THEN <<>> ELSE Format(Head(ds)) \o <<"\n">> \o FormatAll(Tail(ds))

-----------------------------------------------------------------------------
(* Specifications *)

IdleMain ==
    /\ diag = <<>> /\ stderr = <<>> /\ unused = <<>> /\ files_to_fix = NoFiles

IdleFix ==
    /\ file_path = <<>> /\ lines0 = <<>> /\ lines = <<>>
    /\ lines_to_fix = EmptyPlan /\ todo = <<>> /\ cleaned_lines = <<>>
    /\ result = "none"

IdleRemove ==
    /\ rm_parts = NoParts /\ rm_line = <<>> /\ rm_name = <<>> /\ rm_result = <<>>

\* a run of main on any compiler output
InitMain ==
    /\ pc = "main"
    /\ diag \in UpTo(DiagSet, MaxDiag)
    /\ stderr = FormatAll(diag)
    /\ unused = <<>>
    /\ files_to_fix = NoFiles
    /\ disk = [p \in {PathA, PathB} |->
                  IF p = PathA THEN BraceLine \o CodeLine ELSE DefaultLine]
    /\ disk0 = disk
    /\ unused_imports = <<>>
    /\ out = <<>>
    /\ IdleFix /\ IdleRemove

NextMain == MainAnalyze \/ MainToolMissing \/ MainNoUnused \/ MainReport

SpecMain == InitMain /\ [][NextMain]_vars

\* a call of fix_file_imports on any file with any records
InitFix ==
    /\ pc = "fix"
    /\ disk \in {[p \in {PathA, PathB} |->
                     IF p = PathA THEN Flatten(ls) ELSE BraceLine] :
                 ls \in UpTo(LineSet, MaxLines)}
    /\ disk0 = disk
    /\ unused_imports \in UpTo(RecordSet, MaxRecs)
    /\ out = <<>>
    /\ IdleMain /\ IdleFix /\ IdleRemove

NextFix ==
    \/ FixRead \/ FixReadFail \/ FixLine \/ FixLineIndexError
    \/ FixWrite \/ FixWriteFail

SpecFix == InitFix /\ [][NextFix]_vars

\* a call of remove_import_from_line on any brace import
InitRemove ==
    /\ pc = "remove"
    /\ rm_parts \in BraceParts
    /\ rm_line = Render(rm_parts)
    /\ rm_name \in {A, B, AB}
    /\ rm_result = <<>>
    /\ disk = [p \in {PathA, PathB} |-> <<>>]
    /\ disk0 = disk
    /\ unused_imports = <<>>
    /\ out = <<>>
    /\ IdleMain /\ IdleFix

NextRemove == RemoveCall

SpecRemove == InitRemove /\ [][NextRemove]_vars

Init == InitMain \/ InitFix \/ InitRemove

Next == NextMain \/ NextFix \/ NextRemove

Spec == Init /\ [][Next]_vars

-----------------------------------------------------------------------------
(* Properties *)

Range(s) == {s[i] : i \in DOMAIN s}

\* a line of whitespace only
OnlySpace(line) == \A i \in DOMAIN line : line[i] \in WS

RECURSIVE NonBlank(_)
NonBlank(ls) ==
    IF ls = <<>> THEN <<>>
    ELSE IF OnlySpace(Head(ls)) THEN NonBlank(Tail(ls))
    ELSE <<Head(ls)>> \o NonBlank(Tail(ls))

\* C1: a run of main never invokes the Editor (its variables stay as they
\* were) and leaves every file as it was when the run started, whatever the
\* compiler printed.
C1_DefaultRunSafety == disk = disk0 /\ IdleFix

\* main has reported a record that names a line of a file on disk
C1_Witness ==
    /\ pc = "exit"
    /\ \E i \in DOMAIN unused : unused[i].file = PathA /\ unused[i].line = 0
    /\ PathA \in DOMAIN files_to_fix

\* C2 (as claimed): for a line import { n1, ..., nk } from ... and an
\* identifier x, remove_import_from_line returns None when every name equals
\* x, and otherwise the line with the names equal to x taken out of the list,
\* the other names in order, and everything after the from as it was.
C2_NarrowingAsClaimed ==
    pc = "removed" =>
        rm_result = IF Without(rm_parts.names, rm_name) = <<>> THEN None
                    ELSE Replacement(Without(rm_parts.names, rm_name))
                             \o rm_parts.tail

LineValue(l) == IF l = <<"0">> THEN 0 ELSE 10

\* the record a diagnostic stands for
RecordOf(d, import_name) ==
    [file |-> d.file, line |-> LineValue(d.line), import |-> import_name]

RECURSIVE ExpectedRecords(_)
ExpectedRecords(ds) ==
    IF ds = <<>> THEN <<>>
    ELSE LET d == Head(ds)
         IN  (IF d.kind = "named" /\ d.code = <<"6", "1", "3", "3">>
              THEN <<RecordOf(d, d.name)>>
              ELSE IF d.kind = "all" THEN <<RecordOf(d, ALL)>>
              ELSE <<>>)
             \o ExpectedRecords(Tail(ds))

\* C4 (as claimed): the Parser returns one record per diagnostic line
\* <file>(<line>,<col>): error TS6133: '<name>' ... (file, line as an
\* integer, name) or blanket-unused line, none for any other line, in the
\* order of the input, repeated records kept.
C4_RecordSequenceAsClaimed ==
    pc \in {"analyzed", "exit"} => unused = ExpectedRecords(diag)

\* C5 (as claimed): every line that holds the blanket-unused phrase after a
\* <file>(<line>,<col>): prefix yields one record with the sentinel and the
\* file and line of the prefix.
C5_BlanketAsClaimed ==
    (pc \in {"analyzed", "exit"}
        /\ \A i \in DOMAIN diag : diag[i].kind \in {"all", "phrase"})
    => unused = [i \in DOMAIN diag |-> RecordOf(diag[i], ALL)]

\* C6: once the edit loop has visited a line index for which a record with
\* the sentinel was given, that line is the empty string, whatever the line
\* was and whatever else was recorded for it.
C6_SentinelBlanks ==
    (pc = "edit" \/ (pc = "returned" /\ result = "True")) =>
        \A i \in DOMAIN unused_imports :
            LET r == unused_imports[i]
            IN  (/\ r.file = file_path
                 /\ r.import = ALL
                 /\ r.line - 1 \notin Range(todo))
                => lines[PyIndex(r.line - 1, Len(lines))] = <<>>

\* the loop is over; a brace import had the sentinel recorded after another
\* identifier
C6_Witness ==
    /\ pc = "edit" /\ todo = <<>>
    /\ \E k \in DOMAIN lines_to_fix :
          /\ Len(lines_to_fix[k]) = 2
          /\ lines_to_fix[k][1] = A /\ lines_to_fix[k][2] = ALL
          /\ k >= 0
          /\ lines0[k + 1] = BraceLine /\ lines[k + 1] = <<>>

\* C7: fix_file_imports lets no exception out: every failure is reported
\* with the path and returns False; True is returned only after the write
\* completed; a failure while reading or editing leaves the disk as it was;
\* no other file is ever touched.
C7_FailureIsolation ==
    /\ pc # "propagated"
    /\ pc = "returned" =>
          /\ result \in {"True", "False"}
          /\ result = "True" =>
                /\ out = <<>>
                /\ disk[file_path] = Flatten(cleaned_lines)
          /\ result = "False" =>
                /\ Len(out) = 1
                /\ out[1][1] = "Error fixing" /\ out[1][2] = file_path
                /\ out[1][3] \in {"OSError on read", "IndexError"} => disk = disk0
          /\ \A p \in DOMAIN disk : p # file_path => disk[p] = disk0[p]

\* a record beyond the end of the file was caught and turned into False
C7_Witness ==
    /\ pc = "returned" /\ result = "False"
    /\ out[1][3] = "IndexError"
    /\ lines0 # <<>>

\* items without the records that repeat an earlier one
RECURSIVE Dedup(_)
Dedup(items) ==
    IF items = <<>> THEN <<>>
    ELSE LET front == SubSeq(items, 1, Len(items) - 1)
         IN  IF items[Len(items)] \in Range(front) THEN Dedup(front)
             ELSE Append(Dedup(front), items[Len(items)])

\* items in every order
Permuted(items) ==
    {[i \in DOMAIN items |-> items[f[i]]] :
        f \in {g \in [DOMAIN items -> DOMAIN items] : Range(g) = DOMAIN items}}

\* the record sequences that hold the same records as items: in any order,
\* and in any order with the repeats taken out
Rearranged(items) == Permuted(items) \cup Permuted(Dedup(items))

\* C8: without an I/O failure, the returned value and the written text are
\* those of a call with the same records repeated, not repeated, or in any
\* other order.
C8_DuplicatesHarmless ==
    (pc = "returned" /\ (result = "True" \/ out[1][3] = "IndexError")) =>
        \A v \in Rearranged(unused_imports) :
            FixOutcome(file_path, disk0[file_path], v)
                = [result |-> result, text |-> disk[file_path]]

\* a call with a repeated record and a changed file
C8_Witness ==
    /\ pc = "returned" /\ result = "True"
    /\ Len(unused_imports) = 2 /\ unused_imports[1] = unused_imports[2]
    /\ disk[file_path] # disk0[file_path]

\* the orders in which the indices can be visited
Orders(S) == {o \in [1..Cardinality(S) -> S] : Range(o) = S}

\* C9 (as claimed): the edit loop visits the indices in descending order,
\* the list keeps the length it was read with, every index still to visit
\* names the line as read, and the lines at the end of the loop are those of
\* any other order of visit.
C9_NoIndexShiftAsClaimed ==
    pc = "edit" =>
        /\ Len(lines) = Len(lines0)
        /\ \A i, j \in DOMAIN todo : i < j => todo[i] > todo[j]
        /\ \A k \in DOMAIN lines_to_fix \ Range(todo) :
              \A j \in DOMAIN todo : k > todo[j]
        /\ \A j \in DOMAIN todo :
              InRange(todo[j], Len(lines)) =>
                  lines[PyIndex(todo[j], Len(lines))]
                      = lines0[PyIndex(todo[j], Len(lines))]
        /\ todo = <<>> =>
              \A o \in Orders(DOMAIN lines_to_fix) :
                  EditAll(lines0, lines_to_fix, o) = [ok |-> TRUE, lines |-> lines]

\* C10 (as claimed): the edit loop changes only lines whose 1-based number
\* is the line of a record of the given file, for any line number a record
\* can hold, 0 included.
C10_EditFrameAsClaimed ==
    pc = "edit" =>
        \A n \in DOMAIN lines0 :
            (\A i \in DOMAIN unused_imports :
                ~(unused_imports[i].file = file_path /\ unused_imports[i].line = n))
            => lines[n] = lines0[n]

====
